---- MODULE Spec2Model ----
(***************************************************************************)
(* Model of packet_processor (src/main.rs): a capture loop that receives   *)
(* raw frames, decodes the Ethernet header, counts frames per source MAC   *)
(* inside a fixed 10 second window and prints one line per frame.          *)
(*                                                                         *)
(* Time is an integer number of seconds on the monotonic clock that        *)
(* Instant::now() reads.  The capture loop blocks inside rx.next(), so     *)
(* time passes inside an iteration: while it waits for the frame, and      *)
(* between the two clock reads of lines 116 and 118.                       *)
(***************************************************************************)
EXTENDS Integers, Naturals, Sequences, FiniteSets, TLC

VARIABLES
    counts,      \* packet_counts: HashMap<String, u32>            (line 81)
    last_reset,  \* last_reset: Instant of the current window start (line 86)
    clock,       \* the monotonic clock read by Instant::now()
    state,       \* position of main: "Running" (in the loop) or "Terminated"
    exit_code,   \* exit status of the process, NoExit while it runs
    out,         \* lines the latest loop iteration wrote to standard output
    err,         \* lines the latest loop iteration wrote to standard error
    last,        \* what the latest loop iteration did (observation)
    calls,       \* history: increments per source since the last reset
    mtx_counts,  \* Mutex around packet_counts: the thread holding it, or 0
    mtx_time,    \* Mutex around last_reset: the thread holding it, or 0
    pc,          \* SpecThreads: position of each capture thread in the loop body
    loc,         \* SpecThreads: each thread's locals `source` and `count`
    interfaces,  \* the Vec returned by datalink::interfaces()      (line 22)
    interface,   \* the interface selected by find(..)              (line 42)
    rx,          \* the receiver of the opened channel              (line 61)
    created,     \* packet_counts and last_reset exist         (lines 81, 86)
    window,      \* history of the current window (see NoHistory)
    pending      \* SpecThreads: the threads whose call is counted and whose
                 \* line is not yet written, in the order of their increments

tvars == <<mtx_counts, mtx_time, pc, loc, pending>>
ivars == <<interfaces, interface, rx, created>>
vars == <<counts, last_reset, clock, state, exit_code, out, err, last, calls,
          mtx_counts, mtx_time, pc, loc, interfaces, interface, rx, created,
          window, pending>>

(***************************************************************************)
(* Bounds of the model.                                                    *)
(***************************************************************************)
\* largest count the first source is driven to (above the threshold)
MaxCount == 102
\* largest count every other source is driven to
MaxOther == 2
\* the clock stops advancing here
MaxTime == 12
\* longest time one rx.next() blocks
MaxWait == 3
\* longest time between the clock reads of lines 116 and 118
MaxDelay == 1
\* how far below the top of u32 SpecWide starts a count
TopBand == 2
\* capture threads of SpecThreads
NThreads == 2
\* longest interface list datalink::interfaces() returns in SpecStart
MaxInterfaces == 2
\* largest count a source is driven to in SpecThreads
MaxThreadCount == 3

(***************************************************************************)
(* Program constants.                                                      *)
(***************************************************************************)
\* Duration::from_secs(10)
WindowDuration == 10
\* if *count > 100
Threshold == 100
\* a u32 count is held as two 16-bit halves, value = hi * Half + lo
Half == 65536
\* minimum size of a buffer EthernetPacket::new accepts (the header)
EthernetHeaderLen == 14
\* the process has not exited
NoExit == -1
\* exit status of a Rust process whose main returned ()
ExitMainReturned == 0
\* exit status of a Rust process that panicked
ExitPanic == 101

Sources == {"aa:aa:aa:aa:aa:aa", "bb:bb:bb:bb:bb:bb"}
FirstSource == "aa:aa:aa:aa:aa:aa"

\* buffers rx.next() can hand out: a length and, when long enough, the
\* source MAC held in bytes 6..11
Lengths == {13, 14}
Packets == [len : Lengths, source : Sources]

(***************************************************************************)
(* u32 arithmetic on counts.                                                *)
(***************************************************************************)
\* the number n (below 2^31) as a count
Num(n) == [hi |-> n \div Half, lo |-> n % Half]

\* the mathematical successor of a number held in halves (hi is unbounded)
Succ(c) == IF c.lo = Half - 1 THEN [hi |-> c.hi + 1, lo |-> 0]
                              ELSE [hi |-> c.hi, lo |-> c.lo + 1]

\* c > n, for a number n below 2^31
Greater(c, n) == c.hi > n \div Half \/ (c.hi = n \div Half /\ c.lo > n % Half)

\* u32::MAX
U32Max == [hi |-> Half - 1, lo |-> Half - 1]

\* *count += 1 overflows the u32
Overflows(c) == Succ(c).hi >= Half

\* *count += 1 on a u32: the successor modulo 2^32 (the value a build
\* without overflow checks stores)
Add1U32(c) == IF Overflows(c) THEN Num(0) ELSE Succ(c)

(***************************************************************************)
(* HashMap<String, u32> as a function whose domain is the set of keys.     *)
(***************************************************************************)
EmptyMap == [s \in {} |-> Num(0)]

\* the value the mapping holds for s, 0 for a key it does not hold
Get(m, s) == IF s \in DOMAIN m THEN m[s] ELSE Num(0)

\* a clear() that removes the entry of one source only
ClearFirst(m) == [s \in DOMAIN m \ {FirstSource} |-> m[s]]

\* a clear() that leaves the entries in place
ClearKeeps(m) == m

\* counts.clear()
Clear(m) == EmptyMap

\* an or_insert that starts a new key one too high
OrInsertOneHigher(m, s, v) ==
    IF s \in DOMAIN m
    THEN m
    ELSE [x \in DOMAIN m \cup {s} |-> IF x = s THEN Succ(v) ELSE m[x]]

\* counts.entry(source).or_insert(v): the map with the key present
OrInsert(m, s, v) ==
    IF s \in DOMAIN m
    THEN m
    ELSE [x \in DOMAIN m \cup {s} |-> IF x = s THEN v ELSE m[x]]

\* an expiry test that lets a window run one second longer
ExpiredLate(start, now) == now - start >= WindowDuration + 1

\* an expiry test that misses the boundary
ExpiredStrictly(start, now) == now - start > WindowDuration

\* last_reset_time.elapsed() >= Duration::from_secs(10), elapsed read at now
Expired(start, now) == now - start >= WindowDuration

\* a threshold test that fires one count late
VerdictAboveNext(c) == IF Greater(c, Threshold + 1) THEN "Exceeded" ELSE "Allowed"

\* a threshold test that already fires at the threshold
VerdictAtThreshold(c) == IF Greater(c, Threshold - 1) THEN "Exceeded" ELSE "Allowed"

\* if *count > 100 { exceeded } else { allowed }
Verdict(c) == IF Greater(c, Threshold) THEN "Exceeded" ELSE "Allowed"

\* a log that prints the allowed line in both branches
LineAlwaysPacket(s, c) ==
    [fmt |-> "Packet from {}: total {}", source |-> s, count |-> c]

\* the println! of the verdict's branch
Line(s, c) ==
    IF Verdict(c) = "Exceeded"
    THEN [fmt |-> "Rate limiting exceeded for {}: {} packets", source |-> s, count |-> c]
    ELSE [fmt |-> "Packet from {}: total {}", source |-> s, count |-> c]

\* a decoder that wants more than the header
DecodesLonger(p) == p.len > EthernetHeaderLen

\* EthernetPacket::new(packet): Some when the buffer holds a whole header
Decodes(p) == p.len >= EthernetHeaderLen

\* ethernet.get_source().to_string()
GetSource(p) == p.source

\* a lock that never waits
CanLockAlways(m) == TRUE

\* Mutex::lock() returns once no thread holds the mutex
CanLock(m) == m = 0

NoIteration == [kind |-> "none"]

\* a window start that lies one second ahead of the clock
NewStartAhead(now, delay) == now + delay + 1

\* line 118: Instant::now(), read `delay` after the reading `now` of line 116
NewStart(now, delay) == now + delay

\* where the clock reading t lies relative to a window that starts at start
Class(t, start) ==
    IF t < start THEN "before"
    ELSE IF t = start THEN "at"
    ELSE IF t - start < WindowDuration THEN "within"
    ELSE "late"

\* the history entry of one increment: where the clock reading of its
\* expiry check (line 116) and the clock at the increment itself (line 123)
\* lie relative to the window start the increment was counted under
Stamp(now, incr, start) ==
    [call |-> Class(now, start), incr |-> Class(incr, start)]

\* the history of a window in which nothing has been counted:
\*   stamps     the entries of the increments counted in the mapping
\*   prev_start the start of the window before this one: a set of one time,
\*              empty while there is no such window
\*   allowed    per source, the calls of this window that were Allowed
\*   opened     the source and the time of the call that reset and so opened
\*              this window; NoCall for the window created at line 86
NoCall == [source |-> "", now |-> -1]
NoHistory ==
    [stamps |-> {}, prev_start |-> {}, allowed |-> [s \in Sources |-> 0],
     opened |-> NoCall]

\* the history of the window a call of source s opens at time now, `old`
\* being the start of the window it ends
Opened(old, s, now) ==
    [NoHistory EXCEPT !.prev_start = {old},
                      !.opened = [source |-> s, now |-> now]]

\* the history after an increment of source s to count c by a call made at
\* time now; `reset` tells that the call opened a new window, `old` is the
\* window start before it
Counted(h, reset, old, s, now, c, stamp) ==
    LET base == IF reset THEN Opened(old, s, now) ELSE h
    IN  [base EXCEPT !.stamps = @ \cup {stamp},
                     !.allowed[s] = IF Verdict(c) = "Allowed" THEN @ + 1 ELSE @]

\* the name compiled into line 45
WantedName == "en0"
\* a NetworkInterface: its name and what is_up() and is_loopback() return
Interfaces == [name : {"en0", "en1"}, up : BOOLEAN, loopback : BOOLEAN]
\* the interface the loop of Spec captures on
En0 == [name |-> "en0", up |-> TRUE, loopback |-> FALSE]
\* no interface selected yet
NoInterface == [name |-> "", up |-> FALSE, loopback |-> FALSE]

Threads == 1..NThreads
\* the locals of the block of lines 106..132 before it is entered
NoLocals == [source |-> "", count |-> Num(0)]

\* the threads that have taken a frame of source s and not yet counted it
InFlight(s) ==
    {t \in Threads : /\ loc[t].source = s
                     /\ pc[t] \in {"lock_counts", "lock_time", "check", "clear",
                                   "set_time", "incr", "load", "store"}}

\* the model lets a thread take a frame of source s only while the count of
\* s, with the frames in flight added, stays within MaxThreadCount
Room(s) ==
    Get(counts, s).hi = 0
    /\ Get(counts, s).lo + Cardinality(InFlight(s)) < MaxThreadCount

\* the model drives a count no further than this (the counts close to
\* u32::MAX are reached from the initial states of SpecWide only)
Cap(s) == IF s = FirstSource THEN MaxCount ELSE MaxOther
InBand(s, c) ==
    \/ c.hi = 0 /\ c.lo < Cap(s)
    \/ c.hi = Half - 1 /\ c.lo >= Half - 1 - TopBand

Init ==
    /\ counts = EmptyMap
    /\ clock = 0
    /\ last_reset = 0
    /\ state = "Running"
    /\ exit_code = NoExit
    /\ out = <<>>
    /\ err = <<>>
    /\ last = NoIteration
    /\ calls = [s \in Sources |-> Num(0)]
    /\ mtx_counts = 0
    /\ mtx_time = 0
    /\ pc = [t \in Threads |-> "recv"]
    /\ loc = [t \in Threads |-> NoLocals]
    /\ pending = <<>>
    /\ interfaces = <<>>
    /\ interface = En0
    /\ rx = "Ethernet"
    /\ created = TRUE
    /\ window = NoHistory

(***************************************************************************)
(* One iteration of the loop of lines 95..139.                             *)
(***************************************************************************)

\* an undecodable frame that clears the mapping of an expired window
SkipFrameExpires(wait, p) ==
    /\ state = "Running"
    /\ clock + wait <= MaxTime
    /\ ~Decodes(p)
    /\ clock' = clock + wait
    /\ out' = <<>>
    /\ err' = <<>>
    /\ last' = [kind |-> "skip", len |-> p.len]
    /\ counts' = IF Expired(last_reset, clock + wait) THEN Clear(counts) ELSE counts
    /\ UNCHANGED <<last_reset, state, exit_code, calls>>
    /\ UNCHANGED tvars
    /\ UNCHANGED ivars
    /\ UNCHANGED window

\* rx.next() returned Ok(packet) and EthernetPacket::new(packet) is None
SkipFrame(wait, p) ==
    /\ state = "Running"
    /\ clock + wait <= MaxTime
    /\ ~Decodes(p)
    /\ clock' = clock + wait
    /\ out' = <<>>
    /\ err' = <<>>
    /\ last' = [kind |-> "skip", len |-> p.len]
    /\ UNCHANGED <<counts, last_reset, state, exit_code, calls>>
    /\ UNCHANGED tvars
    /\ UNCHANGED ivars
    /\ UNCHANGED window

\* rx.next() returned Ok(packet) and the packet decodes: lines 106..132
RecordFrame(wait, delay, p) ==
    /\ state = "Running"
    /\ clock + wait + delay <= MaxTime
    /\ Decodes(p)
    /\ CanLock(mtx_counts)
    /\ CanLock(mtx_time)
    /\ UNCHANGED tvars
    /\ UNCHANGED ivars
    /\ LET source  == GetSource(p)
           now     == clock + wait
           reset   == Expired(last_reset, now)
           cleared == IF reset THEN Clear(counts) ELSE counts
           entry   == OrInsert(cleared, source, Num(0))
           old     == entry[source]
           before  == IF source \in DOMAIN counts THEN counts[source] ELSE Num(0)
           seen    == [source |-> source, now |-> now, start |-> last_reset,
                       reset |-> reset, before |-> before,
                       stamps |-> window.stamps]
           hist    == IF reset THEN [s \in Sources |-> Num(0)] ELSE calls
       IN  /\ InBand(source, old)
           /\ clock' = IF reset THEN now + delay ELSE now
           /\ last_reset' = IF reset THEN NewStart(now, delay) ELSE last_reset
           /\ calls' = [hist EXCEPT ![source] = Succ(@)]
           /\ err' = <<>>
           /\ \E checked \in (IF Overflows(old) THEN BOOLEAN ELSE {FALSE}) :
                IF checked
                THEN \* built with overflow checks: `attempt to add with
                     \* overflow` panics and the process aborts
                     /\ counts' = entry
                     /\ out' = <<>>
                     /\ state' = "Terminated"
                     /\ exit_code' = ExitPanic
                     /\ last' = [kind |-> "panic", call |-> seen]
                     /\ window' = IF reset
                                  THEN Opened(last_reset, source, now)
                                  ELSE window
                ELSE /\ counts' = [entry EXCEPT ![source] = Add1U32(old)]
                     /\ out' = <<Line(source, Add1U32(old))>>
                     /\ UNCHANGED <<state, exit_code>>
                     /\ last' = [kind |-> "record", call |-> seen,
                                 count |-> Add1U32(old),
                                 verdict |-> Verdict(Add1U32(old))]
                     /\ window' = Counted(window, reset, last_reset, source,
                                          now, Add1U32(old),
                                          Stamp(now, clock', last_reset'))

\* a receive error that is reported without leaving the loop
ReceiveErrorContinues(wait) ==
    /\ state = "Running"
    /\ clock + wait <= MaxTime
    /\ clock' = clock + wait
    /\ out' = <<>>
    /\ err' = <<"Error receiving packet: {}">>
    /\ last' = [kind |-> "error"]
    /\ UNCHANGED <<counts, last_reset, calls, state, exit_code>>
    /\ UNCHANGED tvars
    /\ UNCHANGED ivars
    /\ UNCHANGED window

\* rx.next() returned Err(e): lines 134..137, then main returns
ReceiveError(wait) ==
    /\ state = "Running"
    /\ clock + wait <= MaxTime
    /\ clock' = clock + wait
    /\ out' = <<>>
    /\ err' = <<"Error receiving packet: {}">>
    /\ state' = "Terminated"
    /\ exit_code' = ExitMainReturned
    /\ last' = [kind |-> "error"]
    /\ UNCHANGED <<counts, last_reset, calls>>
    /\ UNCHANGED tvars
    /\ UNCHANGED ivars
    /\ UNCHANGED window

Next ==
    \/ \E wait \in 0..MaxWait, p \in Packets : SkipFrame(wait, p)
    \/ \E wait \in 0..MaxWait, delay \in 0..MaxDelay, p \in Packets :
           RecordFrame(wait, delay, p)
    \/ \E wait \in 0..MaxWait : ReceiveError(wait)

Spec == Init /\ [][Next]_vars

(***************************************************************************)
(* SpecWide: the same loop started in the middle of a window in which the  *)
(* first source has already been recorded close to u32::MAX times (nothing *)
(* in the code bounds the number of frames recorded inside one window).    *)
(***************************************************************************)
TopCounts == {[hi |-> Half - 1, lo |-> Half - 1 - TopBand]}

InitWide ==
    /\ \/ /\ counts = EmptyMap
          /\ calls = [s \in Sources |-> Num(0)]
       \/ \E c \in TopCounts :
            /\ counts = [s \in {FirstSource} |-> c]
            /\ calls = [s \in Sources |-> IF s = FirstSource THEN c ELSE Num(0)]
    /\ clock = 0
    /\ last_reset = 0
    /\ state = "Running"
    /\ exit_code = NoExit
    /\ out = <<>>
    /\ err = <<>>
    /\ last = NoIteration
    /\ mtx_counts = 0
    /\ mtx_time = 0
    /\ pc = [t \in Threads |-> "recv"]
    /\ loc = [t \in Threads |-> NoLocals]
    /\ pending = <<>>
    /\ interfaces = <<>>
    /\ interface = En0
    /\ rx = "Ethernet"
    /\ created = TRUE
    /\ window = NoHistory

SpecWide == InitWide /\ [][Next]_vars

(***************************************************************************)
(* SpecLate: the same loop watched from the end of an iteration that found *)
(* the window created at line 86 expired.  The clock is counted from the   *)
(* moment the frame of that iteration, one of the first source, arrived:   *)
(* the window was WindowDuration old, the check of line 116 read the clock *)
(* as 0 and line 118 read it as OpenDelay.  The state is the one           *)
(* RecordFrame(0, OpenDelay, p) yields from an empty mapping.              *)
(***************************************************************************)
OpenDelay == MaxDelay

InitLate ==
    /\ counts = [s \in {FirstSource} |-> Num(1)]
    /\ clock = OpenDelay
    /\ last_reset = NewStart(0, OpenDelay)
    /\ state = "Running"
    /\ exit_code = NoExit
    /\ out = <<Line(FirstSource, Num(1))>>
    /\ err = <<>>
    /\ last = [kind |-> "record",
               call |-> [source |-> FirstSource, now |-> 0,
                         start |-> 0 - WindowDuration, reset |-> TRUE,
                         before |-> Num(0), stamps |-> {}],
               count |-> Num(1),
               verdict |-> Verdict(Num(1))]
    /\ calls = [s \in Sources |-> IF s = FirstSource THEN Num(1) ELSE Num(0)]
    /\ mtx_counts = 0
    /\ mtx_time = 0
    /\ pc = [t \in Threads |-> "recv"]
    /\ loc = [t \in Threads |-> NoLocals]
    /\ pending = <<>>
    /\ interfaces = <<>>
    /\ interface = En0
    /\ rx = "Ethernet"
    /\ created = TRUE
    /\ window = Counted(NoHistory, TRUE, 0 - WindowDuration, FirstSource, 0,
                        Num(1), Stamp(0, OpenDelay, NewStart(0, OpenDelay)))

SpecLate == InitLate /\ [][Next]_vars

(***************************************************************************)
(* SpecStart: main from its first line: interface selection (lines         *)
(* 22..53), the opening of the channel and the creation of the counting    *)
(* state (lines 61..92), then the loop.                                    *)
(***************************************************************************)
\* a selection that forgets the loopback test
SuitableIgnoresLoopback(iface) == iface.name = WantedName /\ iface.up

\* the closure of line 45
Suitable(iface) == iface.name = WantedName /\ iface.up /\ ~iface.loopback

\* Iterator::find from position i on: the first position whose element the
\* closure accepts, 0 for None
RECURSIVE FindFrom(_, _)
FindFrom(ifs, i) ==
    IF i > Len(ifs) THEN 0
    ELSE IF Suitable(ifs[i]) THEN i
    ELSE FindFrom(ifs, i + 1)

\* interfaces.into_iter().find(..)
Find(ifs) == FindFrom(ifs, 1)

\* the lines of the loop of lines 25..31
ListLines(ifs) ==
    <<[fmt |-> "Available interfaces:"]>> \o
    [i \in 1..Len(ifs) |->
        [fmt |-> "[{}] {}: up={}, loopback={}", index |-> i - 1,
         name |-> ifs[i].name, up |-> ifs[i].up, loopback |-> ifs[i].loopback]]

\* what datalink::channel can return: Ok(Channel::Ethernet), Ok of another
\* variant, Err
ChannelResults == {"Ethernet", "Other", "Err"}

\* a match that takes any Ok(..) as a usable channel
MatchChannelAnyOk(r) ==
    IF r = "Err" THEN "OpenError" ELSE "ok"

\* the arms of the match of lines 61..73
MatchChannel(r) ==
    IF r = "Ethernet" THEN "ok"
    ELSE IF r = "Err" THEN "OpenError"
    ELSE "UnsupportedChannelType"

\* the panic message of each startup failure
PanicMessage(e) ==
    IF e = "NoInterfaceFound" THEN "Interface 'en0' not found or not suitable"
    ELSE IF e = "UnsupportedChannelType" THEN "Unsupported channel type"
    ELSE "Error opening channel: {}"

InterfaceLists ==
    UNION {[1..n -> Interfaces] : n \in 0..MaxInterfaces}

InitStart ==
    /\ counts = EmptyMap
    /\ clock = 0
    /\ last_reset = 0
    /\ state = "Selecting"
    /\ exit_code = NoExit
    /\ out = <<>>
    /\ err = <<>>
    /\ last = NoIteration
    /\ calls = [s \in Sources |-> Num(0)]
    /\ mtx_counts = 0
    /\ mtx_time = 0
    /\ pc = [t \in Threads |-> "recv"]
    /\ loc = [t \in Threads |-> NoLocals]
    /\ pending = <<>>
    /\ interfaces \in InterfaceLists
    /\ interface = NoInterface
    /\ rx = "none"
    /\ created = FALSE
    /\ window = NoHistory

\* lines 22..53: list the interfaces, select one by name or panic
SelectInterface ==
    /\ state = "Selecting"
    /\ LET found == Find(interfaces)
       IN  IF found = 0
           THEN /\ out' = ListLines(interfaces)
                /\ err' = <<PanicMessage("NoInterfaceFound")>>
                /\ state' = "Aborted"
                /\ exit_code' = ExitPanic
                /\ last' = [kind |-> "NoInterfaceFound", interfaces |-> interfaces]
                /\ UNCHANGED interface
           ELSE /\ out' = ListLines(interfaces) \o
                          <<[fmt |-> "Using interface: {}",
                             name |-> interfaces[found].name]>>
                /\ err' = <<>>
                /\ state' = "Opening"
                /\ interface' = interfaces[found]
                /\ last' = [kind |-> "select", interfaces |-> interfaces,
                            found |-> found]
                /\ UNCHANGED exit_code
    /\ interfaces' = <<>>
    /\ UNCHANGED <<counts, last_reset, clock, calls, rx, created, window>>
    /\ UNCHANGED tvars

\* lines 61..92: open the channel, then create the counts and the window
\* start and enter the loop, or panic
OpenChannel(r) ==
    /\ state = "Opening"
    /\ out' = <<>>
    /\ IF MatchChannel(r) = "ok"
       THEN /\ rx' = r
            /\ created' = TRUE
            /\ counts' = EmptyMap
            /\ last_reset' = clock
            /\ state' = "Running"
            /\ err' = <<>>
            /\ last' = [kind |-> "open", channel |-> r]
            /\ UNCHANGED exit_code
       ELSE /\ err' = <<PanicMessage(MatchChannel(r))>>
            /\ state' = "Aborted"
            /\ exit_code' = ExitPanic
            /\ last' = [kind |-> MatchChannel(r), channel |-> r]
            /\ UNCHANGED <<rx, created, counts, last_reset>>
    /\ UNCHANGED <<clock, calls, interfaces, interface, window>>
    /\ UNCHANGED tvars

NextStart ==
    \/ SelectInterface
    \/ \E r \in ChannelResults : OpenChannel(r)
    \/ Next

SpecStart == InitStart /\ [][NextStart]_vars

(***************************************************************************)
(* SpecThreads: NThreads capture threads run the loop body of lines        *)
(* 99..138 on the same two mutexes, one statement per step.                *)
(***************************************************************************)
svars == <<state, exit_code, err, last>>

\* line 99, Ok(packet), line 106 None
TSkip(t, wait, p) ==
    /\ pc[t] = "recv"
    /\ clock + wait <= MaxTime
    /\ ~Decodes(p)
    /\ clock' = clock + wait
    /\ UNCHANGED <<counts, last_reset, out, calls, mtx_counts, mtx_time, pc, loc, pending>>
    /\ UNCHANGED svars
    /\ UNCHANGED ivars
    /\ UNCHANGED window

\* line 99, Ok(packet), lines 106..108
TReceive(t, wait, p) ==
    /\ pc[t] = "recv"
    /\ clock + wait <= MaxTime
    /\ Decodes(p)
    /\ Room(GetSource(p))
    /\ clock' = clock + wait
    /\ loc' = [loc EXCEPT ![t].source = GetSource(p)]
    /\ pc' = [pc EXCEPT ![t] = "lock_counts"]
    /\ UNCHANGED <<counts, last_reset, out, calls, mtx_counts, mtx_time, pending>>
    /\ UNCHANGED svars
    /\ UNCHANGED ivars
    /\ UNCHANGED window

\* line 99, Err(e), lines 134..137
TReceiveError(t, wait) ==
    /\ pc[t] = "recv"
    /\ clock + wait <= MaxTime
    /\ clock' = clock + wait
    /\ pc' = [pc EXCEPT ![t] = "done"]
    /\ UNCHANGED <<counts, last_reset, out, calls, mtx_counts, mtx_time, loc, pending>>
    /\ UNCHANGED svars
    /\ UNCHANGED ivars
    /\ UNCHANGED window

\* line 111
TLockCounts(t) ==
    /\ pc[t] = "lock_counts"
    /\ CanLock(mtx_counts)
    /\ mtx_counts' = t
    /\ pc' = [pc EXCEPT ![t] = "lock_time"]
    /\ UNCHANGED <<counts, last_reset, clock, out, calls, mtx_time, loc, pending>>
    /\ UNCHANGED svars
    /\ UNCHANGED ivars
    /\ UNCHANGED window

\* line 113
TLockTime(t) ==
    /\ pc[t] = "lock_time"
    /\ CanLock(mtx_time)
    /\ mtx_time' = t
    /\ pc' = [pc EXCEPT ![t] = "check"]
    /\ UNCHANGED <<counts, last_reset, clock, out, calls, mtx_counts, loc, pending>>
    /\ UNCHANGED svars
    /\ UNCHANGED ivars
    /\ UNCHANGED window

\* line 116
TCheck(t) ==
    /\ pc[t] = "check"
    /\ pc' = [pc EXCEPT ![t] = IF Expired(last_reset, clock) THEN "clear" ELSE "incr"]
    /\ UNCHANGED <<counts, last_reset, clock, out, calls, mtx_counts, mtx_time, loc, pending>>
    /\ UNCHANGED svars
    /\ UNCHANGED ivars
    /\ UNCHANGED window

\* line 117
TClear(t) ==
    /\ pc[t] = "clear"
    /\ counts' = Clear(counts)
    /\ calls' = [s \in Sources |-> Num(0)]
    /\ pc' = [pc EXCEPT ![t] = "set_time"]
    /\ UNCHANGED <<last_reset, clock, out, mtx_counts, mtx_time, loc, pending>>
    /\ UNCHANGED svars
    /\ UNCHANGED ivars
    /\ UNCHANGED window

\* line 118
TSetTime(t, delay) ==
    /\ pc[t] = "set_time"
    /\ clock + delay <= MaxTime
    /\ clock' = clock + delay
    /\ last_reset' = NewStart(clock, delay)
    /\ pc' = [pc EXCEPT ![t] = "incr"]
    /\ UNCHANGED <<counts, out, calls, mtx_counts, mtx_time, loc, pending>>
    /\ UNCHANGED svars
    /\ UNCHANGED ivars
    /\ UNCHANGED window

\* line 122: entry(source).or_insert(0)
TEntry(t) ==
    /\ pc[t] = "incr"
    /\ counts' = OrInsert(counts, loc[t].source, Num(0))
    /\ pc' = [pc EXCEPT ![t] = "load"]
    /\ UNCHANGED <<last_reset, clock, out, calls, mtx_counts, mtx_time, loc,
                   pending>>
    /\ UNCHANGED svars
    /\ UNCHANGED ivars
    /\ UNCHANGED window

\* line 123, *count += 1: the read of *count
TLoad(t) ==
    /\ pc[t] = "load"
    /\ loc' = [loc EXCEPT ![t].count = Get(counts, loc[t].source)]
    /\ pc' = [pc EXCEPT ![t] = "store"]
    /\ UNCHANGED <<counts, last_reset, clock, out, calls, mtx_counts, mtx_time,
                   pending>>
    /\ UNCHANGED svars
    /\ UNCHANGED ivars
    /\ UNCHANGED window

\* an increment after which the thread has let go of both mutexes
TIncrementUnlocks(t) ==
    /\ pc[t] = "store"
    /\ LET source == loc[t].source
           new    == Add1U32(loc[t].count)
       IN  /\ counts' = [OrInsert(counts, source, Num(0)) EXCEPT ![source] = new]
           /\ calls' = [calls EXCEPT ![source] = Succ(@)]
           /\ loc' = [loc EXCEPT ![t].count = new]
    /\ pending' = Append(pending, t)
    /\ mtx_counts' = 0
    /\ mtx_time' = 0
    /\ pc' = [pc EXCEPT ![t] = "log"]
    /\ UNCHANGED <<last_reset, clock, out>>
    /\ UNCHANGED svars
    /\ UNCHANGED ivars
    /\ UNCHANGED window

\* line 123, *count += 1: the write of *count
TIncrement(t) ==
    /\ pc[t] = "store"
    /\ LET source == loc[t].source
           new    == Add1U32(loc[t].count)
       IN  /\ counts' = [OrInsert(counts, source, Num(0)) EXCEPT ![source] = new]
           /\ calls' = [calls EXCEPT ![source] = Succ(@)]
           /\ loc' = [loc EXCEPT ![t].count = new]
    /\ pending' = Append(pending, t)
    /\ pc' = [pc EXCEPT ![t] = "log"]
    /\ UNCHANGED <<last_reset, clock, out, mtx_counts, mtx_time>>
    /\ UNCHANGED svars
    /\ UNCHANGED ivars
    /\ UNCHANGED window

\* lines 126..131
TLog(t) ==
    /\ pc[t] = "log"
    /\ out' = <<Line(loc[t].source, loc[t].count)>>
    /\ pending' = SelectSeq(pending, LAMBDA u : u # t)
    /\ pc' = [pc EXCEPT ![t] = "unlock_time"]
    /\ UNCHANGED <<counts, last_reset, clock, calls, mtx_counts, mtx_time, loc>>
    /\ UNCHANGED svars
    /\ UNCHANGED ivars
    /\ UNCHANGED window

\* the end of the block dropping the guard of the mapping first
TUnlockTimeDropsCounts(t) ==
    /\ pc[t] = "unlock_time"
    /\ mtx_counts' = 0
    /\ pc' = [pc EXCEPT ![t] = "unlock_counts"]
    /\ UNCHANGED <<counts, last_reset, clock, out, calls, mtx_time, loc, pending>>
    /\ UNCHANGED svars
    /\ UNCHANGED ivars
    /\ UNCHANGED window

\* line 132: the guards are dropped in reverse order of declaration
TUnlockTime(t) ==
    /\ pc[t] = "unlock_time"
    /\ mtx_time' = 0
    /\ pc' = [pc EXCEPT ![t] = "unlock_counts"]
    /\ UNCHANGED <<counts, last_reset, clock, out, calls, mtx_counts, loc, pending>>
    /\ UNCHANGED svars
    /\ UNCHANGED ivars
    /\ UNCHANGED window

TUnlockCounts(t) ==
    /\ pc[t] = "unlock_counts"
    /\ mtx_counts' = 0
    /\ loc' = [loc EXCEPT ![t] = NoLocals]
    /\ pc' = [pc EXCEPT ![t] = "recv"]
    /\ UNCHANGED <<counts, last_reset, clock, out, calls, mtx_time, pending>>
    /\ UNCHANGED svars
    /\ UNCHANGED ivars
    /\ UNCHANGED window

NextThreads ==
    \E t \in Threads :
        \/ \E wait \in 0..MaxWait, p \in Packets : TSkip(t, wait, p)
        \/ \E wait \in 0..MaxWait, p \in Packets : TReceive(t, wait, p)
        \/ \E wait \in 0..MaxWait : TReceiveError(t, wait)
        \/ TLockCounts(t)
        \/ TLockTime(t)
        \/ TCheck(t)
        \/ TClear(t)
        \/ \E delay \in 0..MaxDelay : TSetTime(t, delay)
        \/ TEntry(t)
        \/ TLoad(t)
        \/ TIncrement(t)
        \/ TLog(t)
        \/ TUnlockTime(t)
        \/ TUnlockCounts(t)

SpecThreads == Init /\ [][NextThreads]_vars

(***************************************************************************)
(* Properties.                                                             *)
(***************************************************************************)
\* the mapping holds, for every source, the calls made since the reset
CountsAreCalls ==
    \A s \in Sources :
        IF s \in DOMAIN counts THEN counts[s] = calls[s] ELSE calls[s] = Num(0)

\* C1: the count a record call returns and logs is the number of record
\* calls made for its source since the last window reset, the current call
\* included; a call that performs the reset itself returns 1.
C1_CountIsCallsSinceReset ==
    /\ CountsAreCalls
    /\ last.kind = "record" =>
          /\ last.count = calls[last.call.source]
          /\ out = <<Line(last.call.source, calls[last.call.source])>>
          /\ out[1].count = calls[last.call.source]
          /\ last.call.reset => last.count = Num(1)

\* a call that did not reset returned 2 while the other source is counted too
C1_Witness ==
    /\ last.kind = "record"
    /\ ~last.call.reset
    /\ last.count = Num(2)
    /\ Cardinality(DOMAIN counts) = 2

\* C2: a record call is Exceeded exactly when its post-increment count is
\* above 100: the n-th call of a source in a window returns n, Allowed for
\* n <= 100 and Exceeded from n = 101 on, and inside a window a source that
\* was Exceeded is never Allowed again.
C2_ExceededIffAboveThreshold ==
    /\ [](last.kind = "record" =>
            /\ last.count.hi = 0
            /\ last.verdict = (IF last.count.lo > 100 THEN "Exceeded" ELSE "Allowed")
            /\ calls[last.call.source].lo <= 100 => last.verdict = "Allowed"
            /\ calls[last.call.source].lo = 101 =>
                  last.verdict = "Exceeded" /\ last.count = Num(101))
    /\ [][(/\ last'.kind = "record"
            /\ ~last'.call.reset
            /\ last'.call.source \in DOMAIN counts
            /\ counts[last'.call.source].lo > 100)
           => last'.verdict = "Exceeded"]_vars

\* the 101st call of a source inside the first window
C2_Witness ==
    /\ last.kind = "record"
    /\ last_reset = 0
    /\ last.count = Num(101)
    /\ last.verdict = "Exceeded"

\* C3: the first record call of a source after a reset (the resetting call
\* included) returns count 1 and Allowed, whatever the source's count was
\* before the reset.
C3_RestartsAtOne ==
    [][(/\ last'.kind = "record"
        /\ last'.call.reset \/ calls[last'.call.source] = Num(0))
       => /\ last'.count = Num(1)
          /\ last'.verdict = "Allowed"
          /\ counts'[last'.call.source] = Num(1)
          /\ out' = <<[fmt |-> "Packet from {}: total {}",
                       source |-> last'.call.source, count |-> Num(1)]>>]_vars

\* a resetting call of a source whose count was above the threshold
C3_Witness ==
    /\ last.kind = "record"
    /\ last.call.reset
    /\ Greater(last.call.before, Threshold)
    /\ last.count = Num(1)
    /\ last.verdict = "Allowed"

\* the effect on RateWindow of a record call that read the clock as `now`,
\* `start` being the window start the call sets when it resets
RecordEffect(now, start) ==
    LET s == last'.call.source
    IN  /\ last'.call.reset <=> now - last_reset >= 10
        /\ last'.call.reset =>
              /\ last_reset' = start
              /\ counts' = [x \in {s} |-> Num(1)]
        /\ ~last'.call.reset =>
              /\ last_reset' = last_reset
              /\ DOMAIN counts' = DOMAIN counts \cup {s}
              /\ \A x \in DOMAIN counts \ {s} : counts'[x] = counts[x]

\* C4 as stated: a record call at time now resets (empty mapping, window
\* start = now, then the increment) exactly when now - start >= 10 s, and
\* otherwise leaves the window start and the other counts alone.
C4_ResetSetsStartToNow ==
    [][last'.kind = "record" => RecordEffect(last'.call.now, last'.call.now)]_vars

\* C4 amended: as above, but the window start is set to the clock read
\* after the clear (line 118), which is at or after the `now` that the
\* expiry check used (line 116).
C4_ResetAtExpiry ==
    [][last'.kind = "record" =>
         /\ RecordEffect(last'.call.now, clock')
         /\ clock' >= last'.call.now]_vars

\* a call exactly on the boundary reset the window, the clock having
\* advanced between the check and the update of the window start
C4_Witness ==
    /\ last.kind = "record"
    /\ last.call.reset
    /\ last.call.now - last.call.start = WindowDuration
    /\ last_reset > last.call.now

\* thread t holds the mutex of the count mapping / of the window start
HoldsCounts(t) ==
    pc[t] \in {"lock_time", "check", "clear", "set_time", "incr", "load",
               "store", "log", "unlock_time", "unlock_counts"}
HoldsTime(t) ==
    pc[t] \in {"check", "clear", "set_time", "incr", "load", "store", "log",
               "unlock_time"}

\* thread u has cleared the mapping and not yet updated the window start
Torn(u) == pc[u] = "set_time"

\* C5: while a reset is half done (mapping cleared, window start old) no
\* other thread holds a lock of the engine, so none can look at RateWindow.
C5_ResetIsAtomic ==
    \A u \in Threads :
        Torn(u) =>
            /\ mtx_counts = u
            /\ mtx_time = u
            /\ \A t \in Threads \ {u} : ~HoldsCounts(t) /\ ~HoldsTime(t)

\* a reset is half done while another thread waits for the first lock
C5_Witness ==
    \E u \in Threads, t \in Threads :
        /\ t # u
        /\ Torn(u)
        /\ counts = EmptyMap
        /\ pc[t] = "lock_counts"

\* C6: an iteration whose buffer does not decode (it is shorter than the
\* Ethernet header) leaves RateWindow as it is, expired or not, writes no
\* line and leaves the loop Running.
C6_SkipChangesNothing ==
    [][last'.kind = "skip" =>
         /\ last'.len < 14
         /\ counts' = counts
         /\ last_reset' = last_reset
         /\ calls' = calls
         /\ out' = <<>>
         /\ err' = <<>>
         /\ state' = "Running"
         /\ exit_code' = NoExit]_vars

\* an undecodable buffer arrived when the window had expired
C6_Witness ==
    /\ last.kind = "skip"
    /\ last.len = 13
    /\ clock - last_reset >= WindowDuration
    /\ DOMAIN counts = Sources
    /\ state = "Running"

\* C7: the loop leaves Running only on a receive error, which writes one
\* line to standard error; a successful receive keeps it Running; after
\* Terminated nothing happens any more.
C7_OnlyErrorTerminates ==
    [][/\ (state = "Running" /\ state' # "Running") =>
            /\ last'.kind = "error"
            /\ state' = "Terminated"
            /\ err' = <<"Error receiving packet: {}">>
            /\ out' = <<>>
       /\ last'.kind = "error" => state' = "Terminated"
       /\ last'.kind \in {"skip", "record"} => state' = "Running" /\ err' = <<>>
       /\ state = "Terminated" => UNCHANGED vars]_vars

\* the loop was terminated by a receive error after frames were recorded
C7_Witness ==
    /\ state = "Terminated"
    /\ last.kind = "error"
    /\ err = <<"Error receiving packet: {}">>
    /\ counts # EmptyMap

\* C8: a decoded frame causes one record call and one line on standard
\* output: the "Packet from" line when Allowed, the "Rate limiting
\* exceeded" line when Exceeded, with the frame's source and the count.
C8_OneLinePerFrame ==
    [][last'.kind = "record" =>
         /\ Len(out') = 1
         /\ out'[1].source = last'.call.source
         /\ out'[1].count = last'.count
         /\ last'.verdict = "Allowed" => out'[1].fmt = "Packet from {}: total {}"
         /\ last'.verdict = "Exceeded" =>
               out'[1].fmt = "Rate limiting exceeded for {}: {} packets"
         /\ last'.verdict \in {"Allowed", "Exceeded"}
         /\ calls'[last'.call.source] =
               Succ(IF last'.call.reset THEN Num(0) ELSE calls[last'.call.source])
         /\ \A x \in Sources \ {last'.call.source} :
               calls'[x] = (IF last'.call.reset THEN Num(0) ELSE calls[x])]_vars

\* an Exceeded frame wrote the exceeded line
C8_Witness ==
    /\ last.kind = "record"
    /\ last.verdict = "Exceeded"
    /\ Len(out) = 1
    /\ out[1].fmt = "Rate limiting exceeded for {}: {} packets"
    /\ out[1].count = Num(101)

\* C9: a loop terminated by a receive error exits with a non-zero code.
C9_ErrorExitsNonZero ==
    (state = "Terminated" /\ last.kind = "error") =>
        exit_code # NoExit /\ exit_code # 0

\* C10: a record call always completes with a verdict and a count one
\* above the source's previous count (or 1): the u32 increment never
\* overflows, panics or wraps.
C10_RecordNeverFails ==
    last.kind \in {"record", "panic"} =>
        /\ last.kind = "record"
        /\ last.count =
              Succ(IF last.call.reset THEN Num(0) ELSE last.call.before)
        /\ state = "Running"

\* the lines written for a frame (as opposed to the startup lines)
FrameLine(l) ==
    l.fmt \in {"Packet from {}: total {}",
               "Rate limiting exceeded for {}: {} packets"}

\* C11: the loop is Running only after a suitable interface was selected
\* and the channel opened as Ethernet; NoInterfaceFound,
\* UnsupportedChannelType and OpenError each abort the process at startup,
\* before a frame is received, the counting state is created or a frame
\* line is written.
C11_StartupErrorsAbort ==
    /\ [](state = "Running" =>
            /\ interface.name = "en0" /\ interface.up /\ ~interface.loopback
            /\ rx = "Ethernet"
            /\ created)
    /\ [](state = "Aborted" =>
            /\ last.kind \in {"NoInterfaceFound", "UnsupportedChannelType", "OpenError"}
            /\ exit_code = 101
            /\ Len(err) = 1
            /\ ~created
            /\ counts = EmptyMap /\ calls = [s \in Sources |-> Num(0)]
            /\ \A i \in 1..Len(out) : ~FrameLine(out[i]))
    /\ [][/\ last'.kind \in {"NoInterfaceFound", "UnsupportedChannelType", "OpenError"}
             => state' = "Aborted"
          /\ last'.kind \in {"skip", "record", "error", "panic"}
             => state = "Running" /\ created /\ rx = "Ethernet"
          /\ state = "Aborted" => UNCHANGED vars
          /\ (state' = "Running" /\ state # "Running")
             => state = "Opening" /\ last'.kind = "open" /\ last'.channel = "Ethernet"
          /\ (state' = "Opening" /\ state # "Opening")
             => state = "Selecting" /\ last'.kind = "select"]_vars

\* the channel opened with a variant other than Ethernet and the process
\* aborted
C11_Witness ==
    /\ state = "Aborted"
    /\ last.kind = "UnsupportedChannelType"
    /\ interface.name = "en0"
    /\ ~created

\* C12: selection by name takes the first interface of the list that is
\* named exactly as wanted, is up and is not loopback, and fails with
\* NoInterfaceFound when the list has no such interface.
C12_SelectsFirstSuitable ==
    /\ last.kind = "select" =>
          /\ last.found \in 1..Len(last.interfaces)
          /\ interface = last.interfaces[last.found]
          /\ interface.name = "en0" /\ interface.up /\ ~interface.loopback
          /\ \A j \in 1..(last.found - 1) :
                ~(/\ last.interfaces[j].name = "en0"
                  /\ last.interfaces[j].up
                  /\ ~last.interfaces[j].loopback)
    /\ last.kind = "NoInterfaceFound" =>
          /\ \A j \in 1..Len(last.interfaces) :
                ~(/\ last.interfaces[j].name = "en0"
                  /\ last.interfaces[j].up
                  /\ ~last.interfaces[j].loopback)
          /\ interface = NoInterface
    /\ state = "Selecting" => last.kind = "none"
    /\ (state = "Opening") <=> (last.kind = "select")

\* the first interface is named en0 but is loopback, the second is taken
C12_Witness ==
    /\ last.kind = "select"
    /\ last.found = 2
    /\ last.interfaces[1].name = "en0"
    /\ last.interfaces[1].up
    /\ last.interfaces[1].loopback

\* C13 as stated: every increment counted in the mapping happened strictly
\* after the start of the current window, the increment of the call that
\* reset the window included.
C13_IncrementsStrictlyAfterStart ==
    \A st \in window.stamps : st.incr \in {"within", "late"}

\* C13 amended: every increment counted in the mapping happened at or after
\* the start of the current window, never before it (the increment of the
\* resetting call can fall on the window start itself), and the window
\* start changes only in a step that drops the increments counted before.
C13_IncrementsNotBeforeStart ==
    /\ [](\A st \in window.stamps : st.incr # "before")
    /\ [][last_reset' # last_reset =>
            /\ counts' \in {EmptyMap} \cup
                           {[s \in {x} |-> Num(1)] : x \in Sources}
            /\ window'.stamps \subseteq
                  {Stamp(last'.call.now, clock', last_reset')}]_vars

\* a call reset the window and its increment is the only one counted: the
\* clock read by the check lies before the new window start, the increment
\* on it
C13_Witness ==
    /\ last.kind = "record"
    /\ last.call.reset
    /\ window.stamps = {[call |-> "before", incr |-> "at"]}
    /\ last_reset = clock
    /\ counts = [s \in {last.call.source} |-> Num(1)]

\* C14: in every step either the window start stays and each source's count
\* stays the same or grows by exactly 1 (a new key starting at 1, no key
\* removed), or the whole mapping is reset together with the window start:
\* the window had expired, the window start moves forward and the mapping
\* holds nothing but the count 1 of the calling source.  The mapping is
\* never partially cleared.
C14_StaysGrowsOrFullReset ==
    [][\/ /\ last_reset' = last_reset
          /\ DOMAIN counts \subseteq DOMAIN counts'
          /\ \A s \in DOMAIN counts :
                counts'[s] \in {counts[s], Succ(counts[s])}
          /\ \A s \in DOMAIN counts' \ DOMAIN counts : counts'[s] = Num(1)
       \/ /\ last'.kind = "record"
          /\ Expired(last_reset, last'.call.now)
          /\ last_reset' > last_reset
          /\ counts' = [s \in {last'.call.source} |-> Num(1)]]_vars

\* a call reset a window in which its own source had been counted twice:
\* the window start moved forward and no count of the old window is left
C14_Witness ==
    /\ last.kind = "record"
    /\ last.call.reset
    /\ last.call.before = Num(2)
    /\ last.call.source # FirstSource
    /\ last_reset > last.call.start
    /\ DOMAIN counts = {last.call.source}
    /\ counts[last.call.source] = Num(1)

\* thread t is inside a record call: between its expiry check (line 116)
\* and the write of its increment (line 123)
InCall(t) == pc[t] \in {"check", "clear", "set_time", "incr", "load", "store"}

\* C15: with several capture threads on the same engine the calls are
\* serialized: no two threads are inside a call at the same time; no
\* increment is lost (every count equals the number of increments made for
\* its source since the reset, and the count a call returns is that number,
\* so a source's calls return 1, 2, 3, ... without duplicate or gap); and a
\* thread that clears the mapping does so for a window that is still
\* expired and leaves the mapping empty until it sets the new window start,
\* so one expiry causes one reset.
C15_CallsAreSerialized ==
    /\ \A t \in Threads, u \in Threads : t # u => ~(InCall(t) /\ InCall(u))
    /\ \A s \in Sources : Get(counts, s) = calls[s]
    /\ \A t \in Threads :
          /\ pc[t] = "log" => loc[t].count = calls[loc[t].source]
          /\ pc[t] = "clear" => Expired(last_reset, clock)
          /\ pc[t] = "set_time" =>
                counts = EmptyMap /\ Expired(last_reset, clock)

\* a thread's call has just returned 2, the second count of its source in
\* the window, while another thread waits for the mapping with a frame of
\* the same source
C15_Witness ==
    \E t \in Threads, u \in Threads :
        /\ t # u
        /\ pc[t] = "log"
        /\ loc[t].count = Num(2)
        /\ pc[u] = "lock_counts"
        /\ loc[u].source = loc[t].source

Waiting(t) ==
    \/ pc[t] = "lock_counts" /\ ~CanLock(mtx_counts)
    \/ pc[t] = "lock_time" /\ ~CanLock(mtx_time)

\* the thread that holds the mutex thread t is blocked on
Holder(t) == IF pc[t] = "lock_counts" THEN mtx_counts ELSE mtx_time

\* some step of the threads takes thread t to its next statement
CanMove(t) == ENABLED (NextThreads /\ pc'[t] # pc[t])

\* C17: the mapping and the window start have a mutex each.  A thread holds
\* the mutex of the mapping exactly from line 111 and that of the window
\* start exactly from line 113, both until the end of the block (line 132),
\* so every thread takes them in the same order and keeps both while it
\* checks, resets, counts and prints; no thread holds the mutex of the
\* window start without that of the mapping; and no deadlock is reachable:
\* a blocked thread waits for a thread that is not itself blocked, and
\* every thread that is not blocked and has not left the loop can move on.
C17_LockOrderNoDeadlock ==
    /\ mtx_counts \in Threads \cup {0}
    /\ mtx_time \in Threads \cup {0}
    /\ \A t \in Threads :
          /\ mtx_counts = t <=> HoldsCounts(t)
          /\ mtx_time = t <=> HoldsTime(t)
          /\ mtx_time = t => mtx_counts = t
          /\ Waiting(t) =>
                /\ Holder(t) \in Threads \ {t}
                /\ ~Waiting(Holder(t))
          /\ pc[t] # "done" /\ ~Waiting(t) => CanMove(t)

\* a thread has released the mutex of the window start and still holds
\* that of the mapping, on which another thread is blocked
C17_Witness ==
    \E t \in Threads, u \in Threads :
        /\ t # u
        /\ pc[u] = "unlock_counts"
        /\ mtx_counts = u
        /\ mtx_time = 0
        /\ pc[t] = "lock_counts"
        /\ Waiting(t)

\* C18: a thread prints the line of its call while it still holds both
\* mutexes, and the lines reach standard output in the order in which the
\* calls were counted: the thread that prints is the one whose call was
\* counted earliest among those not yet printed, and its line carries the
\* count the mapping holds at that moment, so no later call has been
\* counted, let alone printed, before it.
C18_LinesInSerializationOrder ==
    /\ [](\A t \in Threads :
             pc[t] = "log" => /\ mtx_counts = t
                              /\ mtx_time = t
                              /\ pending = <<t>>)
    /\ [][\A t \in Threads :
             pc[t] = "log" /\ pc'[t] # "log" =>
                 /\ Head(pending) = t
                 /\ pending' = Tail(pending)
                 /\ out' = <<Line(loc[t].source, Get(counts, loc[t].source))>>
                 /\ mtx_counts' = t
                 /\ mtx_time' = t]_vars

\* a thread has printed the line of the second call of its source and
\* still holds both mutexes, while another thread is blocked with a frame
C18_Witness ==
    \E t \in Threads, u \in Threads :
        /\ t # u
        /\ pc[t] = "unlock_time"
        /\ out = <<Line(loc[t].source, Num(2))>>
        /\ loc[t].count = Num(2)
        /\ pending = <<>>
        /\ mtx_counts = t
        /\ mtx_time = t
        /\ Waiting(u)

\* the latest call was counted for the source whose call opened the window
CountedWithOpener ==
    /\ last.kind = "record"
    /\ last.call.source = window.opened.source

\* C19 as stated: every increment counted in the mapping was made by a call
\* whose time (the clock read by its expiry check, line 116) was less than
\* window_duration after the start of the current window, and the calls a
\* count accumulates are spread over less than window_duration.
C19_CallsSpreadBelowWindow ==
    /\ \A st \in window.stamps : st.call # "late"
    /\ CountedWithOpener =>
          last.call.now - window.opened.now < WindowDuration

\* C19 amended: every increment counted in the mapping was made by a call
\* whose time was less than window_duration after the start of the current
\* window, and the calls a count accumulates are spread over less than
\* window_duration plus the time by which the call that opened the window
\* preceded the window start it set.
C19_CallsWithinWindow ==
    /\ [](\A st \in window.stamps : st.call # "late")
    /\ [](CountedWithOpener =>
             /\ window.opened.now <= last_reset
             /\ last.call.now - window.opened.now
                   < WindowDuration + (last_reset - window.opened.now))
    /\ [][last'.kind = "record" /\ last' # last =>
            /\ last'.call.now - last_reset' < WindowDuration
            /\ window'.stamps =
                  (IF last_reset' = last_reset THEN window.stamps ELSE {})
                  \cup {Stamp(last'.call.now, clock', last_reset')}]_vars

\* a count of 2 made of the call that opened the window, one second before
\* the window start it set, and of a call in the last second of the window
C19_Witness ==
    /\ CountedWithOpener
    /\ ~last.call.reset
    /\ last.count = Num(2)
    /\ last_reset - window.opened.now = 1
    /\ last.call.now - last_reset = WindowDuration - 1
    /\ window.stamps = {[call |-> "before", incr |-> "at"],
                        [call |-> "within", incr |-> "within"]}

\* C20: the mapping and the window start change only in an iteration that
\* records a decodable frame: an iteration that skips an undecodable frame
\* or ends on a receive error leaves both as they are, however long it
\* waited and whether or not the window has expired meanwhile, so the
\* counts of an expired window stay until the next decodable frame; and
\* the window start never moves backwards.
C20_OnlyRecordChangesWindow ==
    [][/\ last_reset' >= last_reset
       /\ last'.kind \in {"skip", "error"} =>
             /\ counts' = counts
             /\ last_reset' = last_reset
       /\ counts' # counts \/ last_reset' # last_reset =>
             last'.kind = "record"]_vars

\* the window expired while the loop waited for a frame that then did not
\* decode, and the counts of both sources are still in the mapping, more
\* than window_duration after the window start
C20_Witness ==
    /\ last.kind = "skip"
    /\ clock > last_reset + WindowDuration
    /\ \A s \in Sources : s \in DOMAIN counts /\ counts[s] = calls[s]
    /\ counts[FirstSource] = Num(2)
    /\ state = "Running"

====================================================================
